---------------------------- MODULE Spec2Model ----------------------------
(***************************************************************************)
(* Model of ronald-egui/scripts/generate-key-labels.py.                    *)
(*                                                                         *)
(* The script walks a fixed key table; for each key it synthesizes a small *)
(* SVG document, writes it to temp_in.svg, shells out to inkscape, filters *)
(* temp_out.svg line by line into <name>.partial.svg and removes the two   *)
(* transient files.                                                        *)
(*                                                                         *)
(* Three specifications are given:                                         *)
(*   SpecSynth    the SVG synthesizer applied to every record of the table *)
(*   SpecExtract  the extractor loop applied to every bounded input file   *)
(*   Spec         main() over a prefix of the table, with the filesystem   *)
(*                and the outcomes of the external command                 *)
(***************************************************************************)
EXTENDS Integers, Sequences, FiniteSets, TLC

VARIABLES
  i,          \* main: index of the key being processed (enumerate(keys)), 1-based
  pc,         \* position of the run inside main()
  svg,        \* main: the document synthesized for the current key
  temp_in,    \* filesystem: temp_in.svg
  temp_out,   \* filesystem: temp_out.svg
  outputs,    \* filesystem: ../assets/keys/<name>.partial.svg, by key index
  missing,    \* history: iterations in which temp_out.svg was absent after os.system
  file_in,    \* extractor: the lines of the file being read
  pos,        \* extractor: number of lines already read by "for line in file_in"
  extract,    \* extractor: the flag of the same name
  file_out    \* extractor: the lines written so far

vars == <<i, pc, svg, temp_in, temp_out, outputs, missing,
          file_in, pos, extract, file_out>>

(***************************************************************************)
(* The key table.  Labels are kept as strings; bytes outside printable     *)
(* ASCII, the double quote and the backslash are spelled U+XXXX.           *)
(***************************************************************************)
keys ==
  <<
    [name |-> "Escape", x |-> 0, y |-> 0, width |-> 100, labels |-> <<"ESC">>],
    [name |-> "Key1", x |-> 100, y |-> 0, width |-> 100, labels |-> <<"!", "1">>],
    [name |-> "Key2", x |-> 200, y |-> 0, width |-> 100, labels |-> <<"U+0022", "2">>],
    [name |-> "Key3", x |-> 300, y |-> 0, width |-> 100, labels |-> <<"#", "3">>],
    [name |-> "Key4", x |-> 400, y |-> 0, width |-> 100, labels |-> <<"$", "4">>],
    [name |-> "Key5", x |-> 500, y |-> 0, width |-> 100, labels |-> <<"%", "5">>],
    [name |-> "Key6", x |-> 600, y |-> 0, width |-> 100, labels |-> <<"&amp;", "6">>],
    [name |-> "Key7", x |-> 700, y |-> 0, width |-> 100, labels |-> <<"'", "7">>],
    [name |-> "Key8", x |-> 800, y |-> 0, width |-> 100, labels |-> <<"(", "8">>],
    [name |-> "Key9", x |-> 900, y |-> 0, width |-> 100, labels |-> <<")", "9">>],
    [name |-> "Key0", x |-> 1000, y |-> 0, width |-> 100, labels |-> <<"_", "0">>],
    [name |-> "Minus", x |-> 1100, y |-> 0, width |-> 100, labels |-> <<"=", "-">>],
    [name |-> "Caret", x |-> 1200, y |-> 0, width |-> 100, labels |-> <<"U+00C2U+00A3", "U+00E2U+2020U+2018">>],
    [name |-> "Clear", x |-> 1300, y |-> 0, width |-> 100, labels |-> <<"CLR">>],
    [name |-> "Delete", x |-> 1400, y |-> 0, width |-> 100, labels |-> <<"DEL">>],
    [name |-> "Numpad7", x |-> 1500, y |-> 0, width |-> 100, labels |-> <<"F7">>],
    [name |-> "Numpad8", x |-> 1600, y |-> 0, width |-> 100, labels |-> <<"F8">>],
    [name |-> "Numpad9", x |-> 1700, y |-> 0, width |-> 100, labels |-> <<"F9">>],
    [name |-> "JoystickUp", x |-> 2000, y |-> 0, width |-> 100, labels |-> <<"U+00E2U+2021U+00A7">>],
    [name |-> "Tab", x |-> 0, y |-> 100, width |-> 125, labels |-> <<"TAB">>],
    [name |-> "Q", x |-> 125, y |-> 100, width |-> 100, labels |-> <<"Q">>],
    [name |-> "W", x |-> 225, y |-> 100, width |-> 100, labels |-> <<"W">>],
    [name |-> "E", x |-> 325, y |-> 100, width |-> 100, labels |-> <<"E">>],
    [name |-> "R", x |-> 425, y |-> 100, width |-> 100, labels |-> <<"R">>],
    [name |-> "T", x |-> 525, y |-> 100, width |-> 100, labels |-> <<"T">>],
    [name |-> "Y", x |-> 625, y |-> 100, width |-> 100, labels |-> <<"Y">>],
    [name |-> "U", x |-> 725, y |-> 100, width |-> 100, labels |-> <<"U">>],
    [name |-> "I", x |-> 825, y |-> 100, width |-> 100, labels |-> <<"I">>],
    [name |-> "O", x |-> 925, y |-> 100, width |-> 100, labels |-> <<"O">>],
    [name |-> "P", x |-> 1025, y |-> 100, width |-> 100, labels |-> <<"P">>],
    [name |-> "At", x |-> 1125, y |-> 100, width |-> 100, labels |-> <<"|", "@">>],
    [name |-> "BracketLeft", x |-> 1225, y |-> 100, width |-> 100, labels |-> <<"{", "[">>],
    [name |-> "Enter", x |-> 1325, y |-> 100, width |-> 175, labels |-> <<"RETURN">>],
    [name |-> "Numpad4", x |-> 1500, y |-> 100, width |-> 100, labels |-> <<"F4">>],
    [name |-> "Numpad5", x |-> 1600, y |-> 100, width |-> 100, labels |-> <<"F5">>],
    [name |-> "Numpad6", x |-> 1700, y |-> 100, width |-> 100, labels |-> <<"F6">>],
    [name |-> "JoystickLeft", x |-> 1900, y |-> 100, width |-> 100, labels |-> <<"U+00E2U+2021U+00A6">>],
    [name |-> "JoystickIcon", x |-> 2000, y |-> 100, width |-> 100, labels |-> <<"U+00F0U+0178U+2022U+00B9">>],
    [name |-> "JoystickRight", x |-> 2100, y |-> 100, width |-> 100, labels |-> <<"U+00E2U+2021U+00A8">>],
    [name |-> "CapsLock", x |-> 0, y |-> 200, width |-> 150, labels |-> <<"CAPS", "LOCK">>],
    [name |-> "A", x |-> 150, y |-> 200, width |-> 100, labels |-> <<"A">>],
    [name |-> "S", x |-> 250, y |-> 200, width |-> 100, labels |-> <<"S">>],
    [name |-> "D", x |-> 350, y |-> 200, width |-> 100, labels |-> <<"D">>],
    [name |-> "F", x |-> 450, y |-> 200, width |-> 100, labels |-> <<"F">>],
    [name |-> "G", x |-> 550, y |-> 200, width |-> 100, labels |-> <<"G">>],
    [name |-> "H", x |-> 650, y |-> 200, width |-> 100, labels |-> <<"H">>],
    [name |-> "J", x |-> 750, y |-> 200, width |-> 100, labels |-> <<"J">>],
    [name |-> "K", x |-> 850, y |-> 200, width |-> 100, labels |-> <<"K">>],
    [name |-> "L", x |-> 950, y |-> 200, width |-> 100, labels |-> <<"L">>],
    [name |-> "Colon", x |-> 1050, y |-> 200, width |-> 100, labels |-> <<"*", ":">>],
    [name |-> "Semicolon", x |-> 1150, y |-> 200, width |-> 100, labels |-> <<"+", ";">>],
    [name |-> "BracketRight", x |-> 1250, y |-> 200, width |-> 100, labels |-> <<"}", "]">>],
    [name |-> "Numpad1", x |-> 1500, y |-> 200, width |-> 100, labels |-> <<"F1">>],
    [name |-> "Numpad2", x |-> 1600, y |-> 200, width |-> 100, labels |-> <<"F2">>],
    [name |-> "Numpad3", x |-> 1700, y |-> 200, width |-> 100, labels |-> <<"F3">>],
    [name |-> "JoystickDown", x |-> 2000, y |-> 200, width |-> 100, labels |-> <<"U+00E2U+2021U+00A9">>],
    [name |-> "ShiftLeft", x |-> 0, y |-> 300, width |-> 200, labels |-> <<"SHIFT">>],
    [name |-> "Z", x |-> 200, y |-> 300, width |-> 100, labels |-> <<"Z">>],
    [name |-> "X", x |-> 300, y |-> 300, width |-> 100, labels |-> <<"X">>],
    [name |-> "C", x |-> 400, y |-> 300, width |-> 100, labels |-> <<"C">>],
    [name |-> "V", x |-> 500, y |-> 300, width |-> 100, labels |-> <<"V">>],
    [name |-> "B", x |-> 600, y |-> 300, width |-> 100, labels |-> <<"B">>],
    [name |-> "N", x |-> 700, y |-> 300, width |-> 100, labels |-> <<"N">>],
    [name |-> "M", x |-> 800, y |-> 300, width |-> 100, labels |-> <<"M">>],
    [name |-> "Comma", x |-> 900, y |-> 300, width |-> 100, labels |-> <<"&lt;", ",">>],
    [name |-> "Period", x |-> 1000, y |-> 300, width |-> 100, labels |-> <<"&gt;", ".">>],
    [name |-> "Slash", x |-> 1100, y |-> 300, width |-> 100, labels |-> <<"?", "/">>],
    [name |-> "Backslash", x |-> 1200, y |-> 300, width |-> 100, labels |-> <<"U+0060", "U+005C">>],
    [name |-> "ShiftRight", x |-> 1300, y |-> 300, width |-> 200, labels |-> <<"SHIFT">>],
    [name |-> "Numpad0", x |-> 1500, y |-> 300, width |-> 100, labels |-> <<"F0">>],
    [name |-> "ArrowUp", x |-> 1600, y |-> 300, width |-> 100, labels |-> <<"U+00E2U+2021U+00A7">>],
    [name |-> "NumpadPeriod", x |-> 1700, y |-> 300, width |-> 100, labels |-> <<".">>],
    [name |-> "JoystickFire1", x |-> 1900, y |-> 300, width |-> 100, labels |-> <<"FIRE 1">>],
    [name |-> "JoystickFire2", x |-> 2000, y |-> 300, width |-> 100, labels |-> <<"FIRE 2">>],
    [name |-> "JoystickFire3", x |-> 2100, y |-> 300, width |-> 100, labels |-> <<"FIRE 3">>],
    [name |-> "Control", x |-> 0, y |-> 400, width |-> 200, labels |-> <<"CONTROL">>],
    [name |-> "Copy", x |-> 200, y |-> 400, width |-> 175, labels |-> <<"COPY">>],
    [name |-> "NumpadEnter", x |-> 1175, y |-> 400, width |-> 325, labels |-> <<"ENTER">>],
    [name |-> "ArrowLeft", x |-> 1500, y |-> 400, width |-> 100, labels |-> <<"U+00E2U+2021U+00A6">>],
    [name |-> "ArrowDown", x |-> 1600, y |-> 400, width |-> 100, labels |-> <<"U+00E2U+2021U+00A9">>],
    [name |-> "ArrowRight", x |-> 1700, y |-> 400, width |-> 100, labels |-> <<"U+00E2U+2021U+00A8">>]
  >>

NumKeys == Len(keys)

(***************************************************************************)
(* SVG synthesizer (main, lines 308-327).  A document is its viewBox and   *)
(* the sequence of its <text> elements; the styling shared by all text     *)
(* elements is kept as fields of the element.                              *)
(***************************************************************************)
NoSvg == [viewBox |-> "none", texts |-> <<>>]

FireKeys == {"JoystickFire1", "JoystickFire2", "JoystickFire3"}

IconKeys == {"JoystickIcon"}

LabelXNoHalving(key) == key.x + key.width

\* x = key.x + key.width // 2
LabelX(key) == key.x + (key.width \div 2)

FontSizeNoFireKeys(key) == IF key.name \in IconKeys THEN 70 ELSE 30

\* size chosen in the single-label branch
FontSize(key) ==
  IF key.name \in FireKeys THEN 25
  ELSE IF key.name \in IconKeys THEN 70
  ELSE 30

TextElement(xx, yy, size, content) ==
  [x |-> xx, y |-> yy, fontFamily |-> "Open Sans", fontSize |-> size,
   fill |-> "white", stroke |-> "white", textAnchor |-> "middle",
   dominantBaseline |-> "middle", content |-> content]

SynthesizeTextsSameY(key) ==
  IF Len(key.labels) = 1
  THEN << TextElement(LabelX(key), key.y + 50, FontSize(key), key.labels[1]) >>
  ELSE << TextElement(LabelX(key), key.y + 35, 30, key.labels[1]),
          TextElement(LabelX(key), key.y + 35, 30, key.labels[2]) >>

SynthesizeTexts(key) ==
  IF Len(key.labels) = 1
  THEN << TextElement(LabelX(key), key.y + 50, FontSize(key), key.labels[1]) >>
  ELSE << TextElement(LabelX(key), key.y + 35, 30, key.labels[1]),
          TextElement(LabelX(key), key.y + 70, 30, key.labels[2]) >>

Synthesize(key) == [viewBox |-> "0 0 2200 500", texts |-> SynthesizeTexts(key)]

(***************************************************************************)
(* Bounds of the model.                                                    *)
(***************************************************************************)
\* main() is run over the first MaxKeys records of the table
MaxKeys == 2

\* longest converted file fed to the extractor loop
MaxLines == 4

Min(a, b) == IF a < b THEN a ELSE b

LastKey == Min(MaxKeys, NumKeys)

(***************************************************************************)
(* Files.  A line is a sequence of byte chunks; the two markers are chunks *)
(* of their own, so "marker in line" is a search through the line.         *)
(***************************************************************************)
PathMarker == "<path"

CloseMarker == "</g>"

\* b"..." in line
Contains(marker, line) == \E n \in 1..Len(line) : line[n] = marker

Lines ==
  { <<"<svg">>, <<"d=">>,
    <<"<g", PathMarker>>,
    <<CloseMarker>>,
    <<PathMarker, "/>", CloseMarker>>,
    <<CloseMarker, "<g", PathMarker>> }

SeqsUpTo(S, n) == UNION { [1..m -> S] : m \in 0..n }

\* the converted files given to the extractor loop on its own
Files == SeqsUpTo(Lines, MaxLines)

\* the converted files inkscape may write during a run of main()
ToolFiles ==
  { <<>>,
    << <<"<svg">>, <<"<g", PathMarker>>, <<"d=">>, <<CloseMarker>>, <<"<svg">> >>,
    << <<"<g", PathMarker>>, <<"d=">> >> }

\* temp_out.svg and the output files: madeIn is the iteration of main() whose
\* inkscape call produced the lines (0: the file predates the run)
NoFile == [exists |-> FALSE, lines |-> <<>>, madeIn |-> 0]

File(lines, n) == [exists |-> TRUE, lines |-> lines, madeIn |-> n]

\* temp_in.svg
NoSvgFile == [exists |-> FALSE, doc |-> NoSvg]

SvgFile(doc) == [exists |-> TRUE, doc |-> doc]

(***************************************************************************)
(* The extractor's flag update for one line (main, lines 340-343).         *)
(***************************************************************************)
NextExtractCloseFirst(flag, line) ==
  IF Contains(PathMarker, line) THEN TRUE
  ELSE IF Contains(CloseMarker, line) THEN FALSE
  ELSE flag

NextExtractIgnorePath(flag, line) ==
  IF Contains(CloseMarker, line) THEN FALSE ELSE flag

NextExtract(flag, line) ==
  LET afterPath == IF Contains(PathMarker, line) THEN TRUE ELSE flag
  IN  IF Contains(CloseMarker, line) THEN FALSE ELSE afterPath

(***************************************************************************)
(* main()                                                                  *)
(***************************************************************************)
\* for i, key in enumerate(keys)
ForKey ==
  /\ pc = "for"
  /\ IF i < LastKey
       THEN i' = i + 1 /\ pc' = "start"
       ELSE i' = i /\ pc' = "done"
  /\ UNCHANGED <<svg, temp_in, temp_out, outputs, missing,
                 file_in, pos, extract, file_out>>

\* lines 301-329: remove the old output file (a missing one is ignored),
\* synthesize the document and write it to temp_in.svg
StartKey ==
  /\ pc = "start"
  /\ outputs' = [outputs EXCEPT ![i] = NoFile]
  /\ svg' = Synthesize(keys[i])
  /\ temp_in' = SvgFile(svg')
  /\ pc' = "tool"
  /\ UNCHANGED <<i, temp_out, missing, file_in, pos, extract, file_out>>

\* lines 332-334: os.system(inkscape ... temp_in.svg -o temp_out.svg).  The
\* exit status is dropped.  The command is outside the program: it writes
\* temp_out.svg or leaves it as it was, and leaves temp_in.svg or removes it.
InvokeTool ==
  /\ pc = "tool"
  /\ \/ temp_out' = temp_out
     \/ \E f \in ToolFiles : temp_out' = File(f, i)
  /\ \/ temp_in' = temp_in
     \/ temp_in' = NoSvgFile
  /\ missing' = IF temp_out'.exists THEN missing ELSE missing \cup {i}
  /\ pc' = "open"
  /\ UNCHANGED <<i, svg, outputs, file_in, pos, extract, file_out>>

\* lines 336-338: open temp_out.svg for reading (FileNotFoundError is not
\* handled and ends the run), then create/truncate the output file
OpenFiles ==
  /\ pc = "open"
  /\ IF ~temp_out.exists
       THEN /\ pc' = "aborted"
            /\ UNCHANGED <<outputs, file_in, pos, extract, file_out>>
       ELSE /\ pc' = "extract"
            /\ file_in' = temp_out.lines
            /\ outputs' = [outputs EXCEPT ![i] = File(<<>>, temp_out.madeIn)]
            /\ pos' = 0
            /\ extract' = FALSE
            /\ file_out' = <<>>
  /\ UNCHANGED <<i, svg, temp_in, temp_out, missing>>

\* lines 339-346: one pass of "for line in file_in"
ReadLine ==
  /\ pc = "extract"
  /\ pos < Len(file_in)
  /\ LET line == file_in[pos + 1]
     IN  /\ extract' = NextExtract(extract, line)
         /\ file_out' = IF extract' THEN Append(file_out, line) ELSE file_out
  /\ pos' = pos + 1
  /\ UNCHANGED <<i, pc, svg, temp_in, temp_out, outputs, missing, file_in>>

\* end of the loop: both with-blocks close, the output file holds what was written
EndOfFile ==
  /\ pc = "extract"
  /\ pos = Len(file_in)
  /\ outputs' = [outputs EXCEPT ![i] = File(file_out, temp_out.madeIn)]
  /\ pc' = "cleanup"
  /\ UNCHANGED <<i, svg, temp_in, temp_out, missing, file_in, pos, extract, file_out>>

\* lines 348-352: one try block around both os.remove calls; the first
\* FileNotFoundError leaves the block
Cleanup ==
  /\ pc = "cleanup"
  /\ IF ~temp_in.exists
       THEN UNCHANGED <<temp_in, temp_out>>
       ELSE temp_in' = NoSvgFile /\ temp_out' = NoFile
  /\ pc' = "for"
  /\ UNCHANGED <<i, svg, outputs, missing, file_in, pos, extract, file_out>>

(***************************************************************************)
(* Spec: a run of main() from any state of the three kinds of file.        *)
(***************************************************************************)
StaleFiles == { File(f, 0) : f \in ToolFiles }

Init ==
  /\ i = 0
  /\ pc = "for"
  /\ svg = NoSvg
  /\ temp_in \in {NoSvgFile, SvgFile(NoSvg)}
  /\ temp_out \in {NoFile} \cup StaleFiles
  /\ \E old \in SUBSET (1..LastKey) :
       outputs = [k \in 1..NumKeys |-> IF k \in old THEN File(<<>>, 0) ELSE NoFile]
  /\ missing = {}
  /\ file_in = <<>>
  /\ pos = 0
  /\ extract = FALSE
  /\ file_out = <<>>

Next ==
  \/ ForKey
  \/ StartKey
  \/ InvokeTool
  \/ OpenFiles
  \/ ReadLine
  \/ EndOfFile
  \/ Cleanup

Spec == Init /\ [][Next]_vars

(***************************************************************************)
(* SpecSynth: the synthesizer stage of main() for each record of the table *)
(***************************************************************************)
InitSynth ==
  /\ i \in 1..NumKeys
  /\ pc = "start"
  /\ svg = NoSvg
  /\ temp_in = NoSvgFile
  /\ temp_out = NoFile
  /\ outputs = [k \in 1..NumKeys |-> NoFile]
  /\ missing = {}
  /\ file_in = <<>>
  /\ pos = 0
  /\ extract = FALSE
  /\ file_out = <<>>

NextSynth == StartKey

SpecSynth == InitSynth /\ [][NextSynth]_vars

(***************************************************************************)
(* SpecExtract: the extractor loop of main() on each converted file        *)
(***************************************************************************)
InitExtract ==
  /\ i = 1
  /\ pc = "extract"
  /\ svg = Synthesize(keys[1])
  /\ temp_in = SvgFile(svg)
  /\ file_in \in Files
  /\ temp_out = File(file_in, 1)
  /\ outputs = [k \in 1..NumKeys |-> IF k = 1 THEN File(<<>>, 1) ELSE NoFile]
  /\ missing = {}
  /\ pos = 0
  /\ extract = FALSE
  /\ file_out = <<>>

NextExtractLoop ==
  \/ ReadLine
  \/ EndOfFile

SpecExtract == InitExtract /\ [][NextExtractLoop]_vars

(***************************************************************************)
(* Properties of the synthesizer, checked under SpecSynth.  After StartKey *)
(* (pc = "tool") svg is the document synthesized for keys[i].              *)
(***************************************************************************)
Synthesized == pc = "tool"

\* C7: a record with exactly one label gets exactly one text element, at
\* vertical position y + 50, with font size 25 for JoystickFire1/2/3, 70 for
\* JoystickIcon and 30 for every other name.
C7_SingleLabel ==
  (Synthesized /\ Len(keys[i].labels) = 1) =>
     /\ Len(svg.texts) = 1
     /\ svg.texts[1].y = keys[i].y + 50
     /\ svg.texts[1].fontSize =
          (IF keys[i].name \in {"JoystickFire1", "JoystickFire2", "JoystickFire3"}
             THEN 25
             ELSE IF keys[i].name = "JoystickIcon" THEN 70 ELSE 30)

C7_Witness ==
  /\ Synthesized
  /\ keys[i].name = "JoystickFire2"
  /\ Len(keys[i].labels) = 1
  /\ Len(svg.texts) = 1
  /\ svg.texts[1].fontSize = 25
  /\ svg.texts[1].y = 350

\* C8: a record with exactly two labels gets exactly two text elements, the
\* first at y + 35 and the second at y + 70, both of font size 30 and both
\* with the same x attribute.
C8_TwoLabels ==
  (Synthesized /\ Len(keys[i].labels) = 2) =>
     /\ Len(svg.texts) = 2
     /\ svg.texts[1].y = keys[i].y + 35
     /\ svg.texts[2].y = keys[i].y + 70
     /\ svg.texts[1].fontSize = 30
     /\ svg.texts[2].fontSize = 30
     /\ svg.texts[1].x = svg.texts[2].x
     /\ svg.texts[1].content = keys[i].labels[1]
     /\ svg.texts[2].content = keys[i].labels[2]

C8_Witness ==
  /\ Synthesized
  /\ keys[i].name = "Key1"
  /\ Len(svg.texts) = 2
  /\ svg.texts[1].y = 35
  /\ svg.texts[2].y = 70

\* C9 as stated: the x attribute of every text element of a record equals the
\* key's horizontal centre x + width/2 (twice the attribute is 2x + width).
C9_ExactCentre ==
  Synthesized =>
     \A n \in 1..Len(svg.texts) : 2 * svg.texts[n].x = 2 * keys[i].x + keys[i].width

\* C9 amended: the x attribute of every text element of a record equals
\* x + floor(width/2): the exact centre when width is even, half a unit to
\* the left of it when width is odd.
C9_FlooredCentre ==
  Synthesized =>
     \A n \in 1..Len(svg.texts) :
        (2 * keys[i].x + keys[i].width) - 2 * svg.texts[n].x = keys[i].width % 2

C9_Witness ==
  /\ Synthesized
  /\ keys[i].name = "Tab"
  /\ keys[i].width = 125
  /\ svg.texts[1].x = 62

(***************************************************************************)
(* Properties of the extractor loop, checked under SpecExtract.            *)
(***************************************************************************)
HasPath(line) == Contains(PathMarker, line)

HasClose(line) == Contains(CloseMarker, line)

Last(s) == s[Len(s)]

\* the loop has ended and the output file is closed
Extracted == pc = "cleanup"

\* C2 as stated: every line that contains "<path" is written to the output
\* file, whatever the flag was before the line was read.
C2_PathLineWritten ==
  [][(pos' = pos + 1 /\ HasPath(file_in[pos + 1]))
        => file_out' = Append(file_out, file_in[pos + 1])]_vars

\* C2 amended: every line that contains "<path" and does not contain "</g>"
\* is written to the output file, whatever the flag was before the line was
\* read.
C2_PathLineWithoutCloseWritten ==
  [][(pos' = pos + 1 /\ HasPath(file_in[pos + 1]) /\ ~HasClose(file_in[pos + 1]))
        => file_out' = Append(file_out, file_in[pos + 1])]_vars

\* the flag was off (a close line came just before) and the path line was copied
C2_Witness ==
  /\ pos >= 2
  /\ HasClose(file_in[pos - 1])
  /\ HasPath(file_in[pos]) /\ ~HasClose(file_in[pos])
  /\ file_out # <<>>
  /\ Last(file_out) = file_in[pos]
  /\ extract

\* C5: no line containing "</g>" is ever written to the output file, and the
\* flag is false right after such a line has been processed.
C5_CloseLineNotWritten ==
  /\ \A n \in 1..Len(file_out) : ~HasClose(file_out[n])
  /\ \A k \in 1..NumKeys : \A n \in 1..Len(outputs[k].lines) : ~HasClose(outputs[k].lines[n])
  /\ (pc = "extract" /\ pos >= 1 /\ HasClose(file_in[pos])) => ~extract

\* ON -> OFF: the line before was copied, the close line was not
C5_Witness ==
  /\ pos = 2
  /\ HasPath(file_in[1]) /\ ~HasClose(file_in[1])
  /\ HasClose(file_in[2])
  /\ file_out = << file_in[1] >>
  /\ ~extract

\* Decomposition of a file into regions, read from line k on: a region starts
\* at a line containing "<path" and is closed by the next line containing
\* "</g>"; lines outside the regions contain no marker.
FirstClose(f, from) ==
  IF \E j \in from..Len(f) : HasClose(f[j])
    THEN CHOOSE j \in from..Len(f) :
           HasClose(f[j]) /\ \A m \in from..(j - 1) : ~HasClose(f[m])
    ELSE 0

RECURSIVE Regions(_, _)
Regions(f, k) ==
  IF k > Len(f) THEN [ok |-> TRUE, starts |-> {}, content |-> <<>>]
  ELSE IF HasPath(f[k])
    THEN LET c == FirstClose(f, k + 1)
         IN  IF c = 0
               THEN [ok |-> FALSE, starts |-> {}, content |-> <<>>]
               ELSE LET r == Regions(f, c + 1)
                    IN  [ok |-> r.ok, starts |-> {k} \cup r.starts,
                         content |-> SubSeq(f, k, c - 1) \o r.content]
  ELSE IF HasClose(f[k])
    THEN [ok |-> FALSE, starts |-> {}, content |-> <<>>]
    ELSE Regions(f, k + 1)

\* C4 as stated: for a file made of N >= 0 such regions, the output is the
\* concatenation of the regions' lines without their closing lines.
C4_RegionsCopied ==
  (Extracted /\ Regions(file_in, 1).ok) =>
     outputs[i].lines = Regions(file_in, 1).content

\* C4 amended: the same, for files whose regions each start at a line that
\* contains "<path" and does not contain "</g>".
C4_CleanRegionsCopied ==
  LET r == Regions(file_in, 1)
  IN  (Extracted /\ r.ok /\ \A s \in r.starts : ~HasClose(file_in[s])) =>
         outputs[i].lines = r.content

\* two regions, both copied without their closing lines
C4_Witness ==
  LET r == Regions(file_in, 1)
  IN  /\ Extracted
      /\ r.ok
      /\ Cardinality(r.starts) = 2
      /\ \A s \in r.starts : ~HasClose(file_in[s])
      /\ Len(outputs[i].lines) = 2
      /\ outputs[i].lines = r.content

HasPathLine(f) == \E n \in 1..Len(f) : HasPath(f[n])

FirstPath(f) == CHOOSE n \in 1..Len(f) : HasPath(f[n]) /\ \A m \in 1..(n - 1) : ~HasPath(f[m])

\* C6 as stated: if the file has a "<path" line and no "</g>" line after the
\* first such line, the output is every line from that line to end-of-file.
C6_CopiedToEndOfFile ==
  (/\ Extracted
   /\ HasPathLine(file_in)
   /\ \A n \in (FirstPath(file_in) + 1)..Len(file_in) : ~HasClose(file_in[n]))
  => outputs[i].lines = SubSeq(file_in, FirstPath(file_in), Len(file_in))

\* C6 amended: if the file has a "<path" line and no "</g>" in the first
\* such line or after it, the output is every line from that line to
\* end-of-file.
C6_CopiedToEndOfFileNoCloseFrom ==
  (/\ Extracted
   /\ HasPathLine(file_in)
   /\ \A n \in FirstPath(file_in)..Len(file_in) : ~HasClose(file_in[n]))
  => outputs[i].lines = SubSeq(file_in, FirstPath(file_in), Len(file_in))

\* lines before the first path line were skipped, all lines from it on copied
C6_Witness ==
  /\ Extracted
  /\ HasPathLine(file_in)
  /\ FirstPath(file_in) = 3
  /\ HasClose(file_in[1])
  /\ Len(file_in) = 4
  /\ ~HasClose(file_in[3]) /\ ~HasClose(file_in[4]) /\ ~HasPath(file_in[4])
  /\ outputs[i].lines = << file_in[3], file_in[4] >>

(***************************************************************************)
(* Properties of a run of main(), checked under Spec.                      *)
(***************************************************************************)
\* iteration k of the loop has run to its end
IterationEnded(k) == k < i \/ (k = i /\ pc \in {"for", "done"})

\* C1: when temp_out.svg does not exist after os.system returns, the run does
\* not abort, the key's iteration ends with an empty output file and main()
\* goes on with the following keys.
C1_ToolFailureTolerated ==
  /\ pc # "aborted"
  /\ \A k \in missing :
        IterationEnded(k) => (outputs[k].exists /\ outputs[k].lines = <<>>)

\* C3: at the end of every iteration that reaches the cleanup, neither
\* temp_in.svg nor temp_out.svg exists, also when one of them was already
\* missing when the cleanup began.
C3_TransientsRemoved ==
  (i >= 1 /\ pc \in {"for", "done"}) => (~temp_in.exists /\ ~temp_out.exists)

\* C10: every line written to key k's output file comes from the converted
\* file that the tool produced in iteration k; a temp_out.svg left from an
\* earlier iteration or an earlier run is never copied.
C10_OutputFromOwnConversion ==
  \A k \in 1..LastKey :
     (/\ k < i \/ (k = i /\ pc \in {"cleanup", "for", "done"})
      /\ outputs[k].exists
      /\ outputs[k].lines # <<>>)
     => outputs[k].madeIn = k

=============================================================================
